---- MODULE Spec2Model ----
(***************************************************************************)
(* State machine of the HeroCarousel component                             *)
(* (src/components/HeroCarousel.tsx): the auto-advance interval timer, the *)
(* transition state and the animation-completion handler.                  *)
(*                                                                         *)
(* One action is one event-loop task: the callback, the re-render React    *)
(* performs for the batched state updates, the reconciliation of the       *)
(* AnimatePresence child, and the effect whose dependency changed.         *)
(*                                                                         *)
(* Environment (React, framer-motion), as far as the component relies on   *)
(* it:                                                                     *)
(*  - the interval callback closes over `current` of the render in which   *)
(*    the effect ran; `timers` holds that captured value per armed timer;  *)
(*  - a state update on an unmounted component is dropped;                 *)
(*  - a present motion.div calls the handler of the latest render; a       *)
(*    motion.div that left the tree is retained by AnimatePresence with    *)
(*    its last props, and the completion of its exit animation calls that  *)
(*    retained handler, which closes over the `next` it was rendered with; *)
(*  - exit animations have no distance to travel (x: 0 -> x: 0), so they   *)
(*    complete in the order they started and before a later-started enter  *)
(*    animation does.                                                      *)
(***************************************************************************)
EXTENDS Integers, Sequences, FiniteSets, TLC

\* null of `number | null`
None == -1

\* Array of image paths for the carousel
images == << "/heroContainer/heroPic1.jpg",
             "/heroContainer/heroPic2.jpg",
             "/heroContainer/heroPic3.jpg" >>

\* images.length
N == Len(images)

\* Navigation menu items
navItems == << "Overview", "Projects", "Categories", "Motion" >>

\* Ticks are counted up to this number (the counter saturates there).
MaxTicks == 7

VARIABLES
    mounted,          \* the component is in the tree
    current,          \* useState(0)
    direction,        \* useState(1)
    isTransitioning,  \* useState(false)
    next,             \* useState<number | null>(null)
    displayedIndex,   \* useState(0)
    hoveredNav,       \* useState<number | null>(null)
    hoveredMe,        \* useState(false)
    timers,           \* armed interval timers: the `current` each callback closes over
    entering,         \* the motion.div rendered under AnimatePresence
    exiting,          \* motion.divs retained by AnimatePresence for their exit animation
    ticks,            \* history: number of interval callbacks run (saturating)
    overlap,          \* history: some tick ran while a completion callback was outstanding
    afterFirst        \* history: carousel state right after the handler's first call

core == << current, next, isTransitioning, displayedIndex >>

vars == << mounted, current, direction, isTransitioning, next, displayedIndex,
           hoveredNav, hoveredMe, timers, entering, exiting,
           ticks, overlap, afterFirst >>

NoElement == [key |-> None, animating |-> FALSE]

NoSnapshot == << None, None, FALSE, None >>

\* variant: advances by two
NextIndexSkip(c) == (c + 2) % N

\* variant: no wrap-around
NextIndexNoWrap(c) == c + 1

\* (current + 1) % images.length
NextIndex(c) == (c + 1) % N

----------------------------------------------------------------------------
\* useEffect(() => { const timer = setInterval(...); return () => clearInterval(timer); }, [current])
\* ts: timers armed before the render, cOld/cNew: `current` before and after it.
\* (variants: no clearInterval in the cleanup; empty dependency list)
useEffectTimerNoCleanup(ts, cOld, cNew) ==
    IF cNew # cOld THEN Append(ts, cNew) ELSE ts

useEffectTimerEmptyDeps(ts, cOld, cNew) == ts

useEffectTimer(ts, cOld, cNew) ==
    IF cNew # cOld THEN << cNew >> ELSE ts

\* {isTransitioning && next !== null && <motion.div key={next} .../>} after the render
Wanted == IF isTransitioning' /\ next' # None THEN next' ELSE None

\* AnimatePresence: a child whose key is still rendered stays; a child that
\* is no longer rendered is retained for its exit animation; a new key mounts
\* a child that starts its enter animation (a retained child of that key is
\* brought back instead of finishing its exit).
Retained(exq) == SelectSeq(exq, LAMBDA e : e.key # Wanted)

AnimatePresence(ent, exq) ==
    IF ent.key = Wanted
    THEN << ent, exq >>
    ELSE << IF Wanted = None THEN NoElement
                             ELSE [key |-> Wanted, animating |-> TRUE],
            IF ent.key = None
            THEN Retained(exq)
            ELSE Append(Retained(exq), [key    |-> ent.key,
                                        called |-> ~ent.animating]) >>

\* The re-render after a callback, while mounted: effect and presence.
Render(ent, exq) ==
    IF mounted
    THEN /\ timers'   = useEffectTimer(timers, current, current')
         /\ entering' = AnimatePresence(ent, exq)[1]
         /\ exiting'  = AnimatePresence(ent, exq)[2]
    ELSE /\ timers'   = timers
         /\ entering' = ent
         /\ exiting'  = exq

----------------------------------------------------------------------------
Init ==
    /\ mounted = TRUE
    /\ current = 0
    /\ direction = 1
    /\ isTransitioning = FALSE
    /\ next = None
    /\ displayedIndex = 0
    /\ hoveredNav = None
    /\ hoveredMe = FALSE
    /\ timers = << 0 >>
    /\ entering = NoElement
    /\ exiting = << >>
    /\ ticks = 0
    /\ overlap = FALSE
    /\ afterFirst = NoSnapshot

\* Body of the setInterval callback; c is the `current` it closes over.
\* (variants: direction -1; indicator not updated; next computed from
\* displayedIndex instead of the captured current)
TickUpdateBackward(c) ==
    IF mounted
    THEN /\ direction' = -1
         /\ next' = NextIndex(c)
         /\ isTransitioning' = TRUE
         /\ displayedIndex' = NextIndex(c)
         /\ current' = current
    ELSE UNCHANGED << direction, next, isTransitioning, displayedIndex, current >>

TickUpdateNoIndicator(c) ==
    IF mounted
    THEN /\ direction' = 1
         /\ next' = NextIndex(c)
         /\ isTransitioning' = TRUE
         /\ displayedIndex' = displayedIndex
         /\ current' = current
    ELSE UNCHANGED << direction, next, isTransitioning, displayedIndex, current >>

TickUpdateFromDisplayed(c) ==
    IF mounted
    THEN /\ direction' = 1
         /\ next' = NextIndex(displayedIndex)
         /\ isTransitioning' = TRUE
         /\ displayedIndex' = NextIndex(displayedIndex)
         /\ current' = current
    ELSE UNCHANGED << direction, next, isTransitioning, displayedIndex, current >>

TickUpdate(c) ==
    IF mounted
    THEN /\ direction' = 1
         /\ next' = NextIndex(c)
         /\ isTransitioning' = TRUE
         /\ displayedIndex' = NextIndex(c)
         /\ current' = current
    ELSE UNCHANGED << direction, next, isTransitioning, displayedIndex, current >>

\* An armed interval timer fires.
Tick ==
    /\ \E i \in 1..Len(timers) : TickUpdate(timers[i])
    /\ Render(entering, exiting)
    /\ ticks' = IF ticks < MaxTicks THEN ticks + 1 ELSE ticks
    /\ overlap' = (overlap \/ isTransitioning \/ exiting # << >>)
    /\ UNCHANGED << mounted, hoveredNav, hoveredMe, afterFirst >>

\* handleAnimationComplete; h is the `next` the called closure was created with.
\* (variants: next not cleared; current advanced instead of set to next)
handleAnimationCompleteKeepNext(h) ==
    IF mounted /\ h # None
    THEN /\ current' = h
         /\ next' = next
         /\ isTransitioning' = FALSE
         /\ displayedIndex' = h
    ELSE UNCHANGED << current, next, isTransitioning, displayedIndex >>

handleAnimationCompleteAdvance(h) ==
    IF mounted /\ h # None
    THEN /\ current' = NextIndex(current)
         /\ next' = None
         /\ isTransitioning' = FALSE
         /\ displayedIndex' = NextIndex(current)
    ELSE UNCHANGED << current, next, isTransitioning, displayedIndex >>

handleAnimationComplete(h) ==
    IF mounted /\ h # None
    THEN /\ current' = h
         /\ next' = None
         /\ isTransitioning' = FALSE
         /\ displayedIndex' = h
    ELSE UNCHANGED << current, next, isTransitioning, displayedIndex >>

\* The enter animation of the present motion.div completes:
\* onAnimationComplete of the latest render is called.
AnimationComplete ==
    /\ entering.key # None
    /\ entering.animating
    /\ exiting = << >>
    /\ handleAnimationComplete(next)
    /\ Render([entering EXCEPT !.animating = FALSE], exiting)
    /\ afterFirst' = core'
    /\ UNCHANGED << mounted, direction, hoveredNav, hoveredMe, ticks, overlap >>

\* The exit animation of a retained motion.div completes:
\* the onAnimationComplete it was last rendered with is called.
ExitComplete ==
    /\ exiting # << >>
    /\ handleAnimationComplete(Head(exiting).key)
    /\ Render(entering, Tail(exiting))
    /\ afterFirst' = NoSnapshot
    /\ UNCHANGED << mounted, direction, hoveredNav, hoveredMe, ticks, overlap >>

\* The component is torn down: the effect's cleanup runs.
\* (variant: the cleanup does not clear the interval)
UnmountLeak ==
    /\ mounted
    /\ mounted' = FALSE
    /\ timers' = timers
    /\ UNCHANGED << current, direction, isTransitioning, next, displayedIndex,
                    hoveredNav, hoveredMe, entering, exiting,
                    ticks, overlap, afterFirst >>

Unmount ==
    /\ mounted
    /\ mounted' = FALSE
    /\ timers' = << >>
    /\ UNCHANGED << current, direction, isTransitioning, next, displayedIndex,
                    hoveredNav, hoveredMe, entering, exiting,
                    ticks, overlap, afterFirst >>

\* onMouseEnter={() => setHoveredNav(idx)}
MouseEnterNav(idx) ==
    /\ mounted
    /\ hoveredNav' = idx
    /\ UNCHANGED << mounted, current, direction, isTransitioning, next,
                    displayedIndex, hoveredMe, ticks, overlap, afterFirst >>
    /\ Render(entering, exiting)

\* onMouseLeave={() => setHoveredNav(null)}
MouseLeaveNav ==
    /\ mounted
    /\ hoveredNav' = None
    /\ UNCHANGED << mounted, current, direction, isTransitioning, next,
                    displayedIndex, hoveredMe, ticks, overlap, afterFirst >>
    /\ Render(entering, exiting)

\* onMouseEnter={() => setHoveredMe(true)}
MouseEnterMe ==
    /\ mounted
    /\ hoveredMe' = TRUE
    /\ UNCHANGED << mounted, current, direction, isTransitioning, next,
                    displayedIndex, hoveredNav, ticks, overlap, afterFirst >>
    /\ Render(entering, exiting)

\* onMouseLeave={() => setHoveredMe(false)}
MouseLeaveMe ==
    /\ mounted
    /\ hoveredMe' = FALSE
    /\ UNCHANGED << mounted, current, direction, isTransitioning, next,
                    displayedIndex, hoveredNav, ticks, overlap, afterFirst >>
    /\ Render(entering, exiting)

Hover ==
    \/ \E idx \in 0..(Len(navItems) - 1) : MouseEnterNav(idx)
    \/ MouseLeaveNav
    \/ MouseEnterMe
    \/ MouseLeaveMe

Next ==
    \/ Tick
    \/ AnimationComplete
    \/ ExitComplete
    \/ Unmount
    \/ Hover

Spec == Init /\ [][Next]_vars

\* The component stays mounted; the interval keeps firing and every started
\* animation runs to completion.
MountedNext ==
    \/ Tick
    \/ AnimationComplete
    \/ ExitComplete
    \/ Hover

LiveSpec ==
    /\ Init
    /\ [][MountedNext]_vars
    /\ WF_vars(Tick)
    /\ WF_vars(AnimationComplete)
    /\ WF_vars(ExitComplete)

----------------------------------------------------------------------------
\* The carousel is idle: no transition is in progress.
Idle == ~isTransitioning /\ next = None

\* No completion callback is outstanding.
Quiescent == ~isTransitioning /\ entering.key = None /\ exiting = << >>

\* C1: an interval tick delivered in an idle state with current = c sets
\* next and displayedIndex to (c + 1) mod N, direction to 1 and
\* isTransitioning to true, and leaves current equal to c.
C1_TickFromIdle ==
    [][ (mounted /\ Idle /\ Tick) =>
            /\ next' = (current + 1) % N
            /\ direction' = 1
            /\ isTransitioning' = TRUE
            /\ displayedIndex' = (current + 1) % N
            /\ current' = current ]_vars

C1_Witness ==
    /\ mounted /\ ticks = 3 /\ ~overlap
    /\ current = 2 /\ next = 0 /\ isTransitioning
    /\ displayedIndex = 0 /\ direction = 1

\* C2: in the mounted component, after k ticks without overlap, each
\* followed by its completion callback, current = k mod N.
C2_CurrentIsTicksModN ==
    (mounted /\ ~overlap /\ Quiescent /\ ticks < MaxTicks) =>
        current = ticks % N

C2_Witness ==
    mounted /\ ~overlap /\ Quiescent /\ ticks = 5 /\ current = 2

\* C3: in every reachable state isTransitioning is true exactly when next
\* is not null.
C3_TransitioningIffNext ==
    isTransitioning <=> (next # None)

C3_Witness ==
    /\ overlap /\ ticks >= 4
    /\ ~isTransitioning /\ next = None /\ exiting # << >>

\* C4: in every reachable state displayedIndex equals next while
\* transitioning and current while idle.
C4_DisplayedIndex ==
    /\ isTransitioning => displayedIndex = next
    /\ ~isTransitioning => displayedIndex = current

C4_Witness ==
    isTransitioning /\ displayedIndex = next /\ displayedIndex # current

\* C5: current and displayedIndex are always in [0, N), and while
\* transitioning next is an index in [0, N) different from current.
C5_IndicesInRange ==
    /\ current \in 0..(N - 1)
    /\ displayedIndex \in 0..(N - 1)
    /\ isTransitioning => (next \in 0..(N - 1) /\ next # current)

C5_Witness ==
    isTransitioning /\ current = N - 1 /\ next = 0 /\ displayedIndex = 0

\* C6: after teardown no interval timer is armed, and no step (timer tick
\* or pending completion callback) changes current, next, isTransitioning
\* or displayedIndex.
C6_TeardownInert ==
    [][ /\ ~mounted' => timers' = << >>
        /\ ~mounted  => UNCHANGED core
        /\ (mounted /\ ~mounted') => UNCHANGED core ]_vars

\* torn down during a transition, and the pending callback has been delivered
C6_Witness ==
    /\ ~mounted /\ isTransitioning /\ next # None
    /\ entering.key # None /\ ~entering.animating

\* C7: a second call of the completion handler for the same transition
\* leaves the carousel state equal to the state after the first call: called
\* in the state the first call left, it changes nothing, and through the
\* retained handler of a mounted component it commits the same values again.
C7_SecondCallSameState ==
    [][ (exiting # << >> /\ Head(exiting).called /\ ExitComplete) =>
            /\ core = afterFirst => core' = afterFirst
            /\ mounted => core' = afterFirst ]_vars

\* one tick, its completion, and the second call through the retained handler
C7_Witness ==
    /\ mounted /\ ticks = 1 /\ current = 1
    /\ Quiescent /\ afterFirst = NoSnapshot

\* C8: while mounted exactly one interval timer is armed, and it is the one
\* armed for the present value of current; after teardown none is armed.
C8_OneTimer ==
    /\ mounted => (Len(timers) = 1 /\ timers[1] = current)
    /\ ~mounted => timers = << >>

C8_Witness ==
    mounted /\ current = 2 /\ timers = << 2 >> /\ ticks = 2

\* C9: an interval tick delivered while a transition is in progress leaves
\* current, next, isTransitioning, displayedIndex and direction unchanged.
C9_OverlappingTickDropped ==
    [][ (isTransitioning /\ Tick) =>
            UNCHANGED << current, next, isTransitioning, displayedIndex,
                         direction >> ]_vars

C9_Witness ==
    mounted /\ overlap /\ isTransitioning /\ entering.animating

\* C10: while mounted, with the interval firing and animations completing,
\* every transition eventually completes, every slide index is current
\* infinitely often, and current only ever stays or advances by one mod N.
C10_Progress ==
    /\ isTransitioning ~> ~isTransitioning
    /\ \A i \in 0..(N - 1) : []<>(current = i)
    /\ [][ current' = current \/ current' = (current + 1) % N ]_vars

\* a full cycle: slide 0 is current again
C10_Witness ==
    mounted /\ ticks >= N /\ current = 0 /\ Quiescent

====
